---- MODULE Spec2Model ----
(***************************************************************************)
(* The AFK tracker and the pull-request link expander of cogs/general.py:  *)
(* the /afk command (General.afk), the message listener                    *)
(* (General.on_message) and the regular expression PULL_HASH_REGEX.        *)
(*                                                                         *)
(* Text is modelled as sequences of one-character strings, so that         *)
(* startswith, slicing and the regular expression are computed; what is    *)
(* sent to the platform is a TLC string built with \o.  A coroutine is     *)
(* modelled by the await it is suspended at: the code between two awaits   *)
(* runs without interleaving (asyncio, one thread), so one action runs a   *)
(* handler from the completion of one await to the issue of the next.      *)
(***************************************************************************)
EXTENDS Naturals, Sequences, FiniteSets, Bags, TLC

(***************************************************************************)
(* Bounds of the model.                                                    *)
(***************************************************************************)
\* on_message invocations that can be in progress at once
MaxTasks == 2
\* longest mention list of a message
MaxMentions == 2
\* longest content enumerated exhaustively over Alphabet
MaxContentLen == 4
\* the contents "##1 ... ##n" are enumerated for n up to ManyRefs
ManyRefs == 17

(***************************************************************************)
(* Program constants.                                                      *)
(***************************************************************************)
\* list(...)[:15]
MaxLinks == 15
\* if len(links) > 2
WrapOver == 2
\* nick[6:]
PrefixLen == 6

DefaultOrg == "Pycord-Development"
DefaultRepo == "pycord"
AfkPrefix == <<"[", "A", "F", "K", "]", " ">>
Wave == "\\U0001f44b"

(***************************************************************************)
(* Text helpers.                                                           *)
(***************************************************************************)
Min(a, b) == IF a < b THEN a ELSE b

Range(s) == {s[i] : i \in 1..Len(s)}

\* the str value of a sequence of characters
RECURSIVE Str(_)
Str(s) == IF s = <<>> THEN "" ELSE Head(s) \o Str(Tail(s))

\* str.startswith
StartsWith(s, p) == Len(s) >= Len(p) /\ SubSeq(s, 1, Len(p)) = p

\* s[n:]
DropPrefix(s, n) == SubSeq(s, n + 1, Len(s))

RECURSIVE Concat(_)
Concat(ss) == IF ss = <<>> THEN <<>> ELSE Head(ss) \o Concat(Tail(ss))

RECURSIVE SeqsUpTo(_, _)
SeqsUpTo(S, n) ==
    IF n = 0 THEN {<<>>}
    ELSE LET shorter == SeqsUpTo(S, n - 1)
         IN  shorter \cup {Append(s, c) : s \in shorter, c \in S}

\* the subsets of S with k elements
RECURSIVE KSubsets(_, _)
KSubsets(S, k) ==
    IF k = 0 THEN {{}}
    ELSE IF Cardinality(S) < k THEN {}
    ELSE LET x == CHOOSE y \in S : TRUE
         IN  KSubsets(S \ {x}, k) \cup {T \cup {x} : T \in KSubsets(S \ {x}, k - 1)}

(***************************************************************************)
(* PULL_HASH_REGEX:                                                        *)
(*   (?:(?P<org>(?:[A-Za-z]|\d|-)+)/)?(?P<repo>(?:[A-Za-z]|\d|-)+)?        *)
(*   (?:##)(?P<index>[0-9]+)                                               *)
(***************************************************************************)
DigitChars == {"0", "1", "2", "3", "4", "5", "6", "7", "8", "9"}

LetterChars ==
    {"a", "b", "c", "d", "e", "f", "g", "h", "i", "j", "k", "l", "m",
     "n", "o", "p", "q", "r", "s", "t", "u", "v", "w", "x", "y", "z",
     "A", "B", "C", "D", "E", "F", "G", "H", "I", "J", "K", "L", "M",
     "N", "O", "P", "Q", "R", "S", "T", "U", "V", "W", "X", "Y", "Z"}

\* (?:[A-Za-z]|\d|-)
IsNameChar(c) == c \in LetterChars \cup DigitChars \cup {"-"}

\* [0-9]
IsDigitChar(c) == c \in DigitChars

\* the length of the longest run of name characters of s from position p
RECURSIVE NameRun(_, _)
NameRun(s, p) ==
    IF p <= Len(s) /\ IsNameChar(s[p]) THEN 1 + NameRun(s, p + 1) ELSE 0

RECURSIVE DigitRun(_, _)
DigitRun(s, p) ==
    IF p <= Len(s) /\ IsDigitChar(s[p]) THEN 1 + DigitRun(s, p + 1) ELSE 0

CharAt(s, p) == IF p >= 1 /\ p <= Len(s) THEN s[p] ELSE ""

NoMatch == [end |-> 0]

\* repo? ## index, matched at position q with the org group already decided.
\* The repo group is greedy and is followed by "#", which is no name
\* character: only the whole run of name characters at q can be the repo.
MatchTail(s, org, q) ==
    LET r == NameRun(s, q)
        h == q + r
        d == DigitRun(s, h + 2)
    IN  IF CharAt(s, h) = "#" /\ CharAt(s, h + 1) = "#" /\ d >= 1
        THEN [org   |-> org,
              repo  |-> Str(SubSeq(s, q, h - 1)),
              index |-> Str(SubSeq(s, h + 2, h + 1 + d)),
              end   |-> h + 2 + d]
        ELSE NoMatch

\* The match of the pattern that starts at position p, as re finds it: the
\* org group is tried first and can only be the whole run of name characters
\* at p followed by "/"; when that run is followed by "/" no match without
\* org starts at p (a repo at p would have to be followed by "#").
MatchAt(s, p) ==
    LET k == NameRun(s, p)
    IN  IF k >= 1 /\ CharAt(s, p + k) = "/"
        THEN MatchTail(s, Str(SubSeq(s, p, p + k - 1)), p + k + 1)
        ELSE MatchTail(s, "", p)

\* PULL_HASH_REGEX.findall(content) from position p on: the (org, repo, index)
\* groups of the non-overlapping matches, left to right, an absent group
\* being the empty string.
RECURSIVE FindAllFrom(_, _)
FindAllFrom(s, p) ==
    IF p > Len(s) THEN <<>>
    ELSE LET m == MatchAt(s, p)
         IN  IF m = NoMatch THEN FindAllFrom(s, p + 1)
             ELSE <<[org |-> m.org, repo |-> m.repo, index |-> m.index]>>
                      \o FindAllFrom(s, m.end)

FindAll(s) == FindAllFrom(s, 1)

(***************************************************************************)
(* The link reply.                                                         *)
(***************************************************************************)
\* org = org or "Pycord-Development" (the empty string is falsy)
OrDefault(v, default) == IF v = "" THEN default ELSE v

make_link_repo_needs_org(index, org, repo) ==
    "https://github.com/" \o OrDefault(org, DefaultOrg) \o "/"
        \o (IF org = "" THEN DefaultRepo ELSE OrDefault(repo, DefaultRepo))
        \o "/pull/" \o index

make_link(index, org, repo) ==
    "https://github.com/" \o OrDefault(org, DefaultOrg) \o "/"
        \o OrDefault(repo, DefaultRepo) \o "/pull/" \o index

\* make_link(index, org, repo) for org, repo, index in findall(content)
Urls(content) ==
    LET refs == FindAll(content)
    IN  [i \in 1..Len(refs) |-> make_link(refs[i].index, refs[i].org, refs[i].repo)]

\* set(...).  A list whose order is not determined (list(set(...)) has the
\* order of the set's hash table) is modelled by the bag of its elements.
UrlSet(urls) == SetToBag(Range(urls))

\* the elements of a bag, each copy apart
Occurrences(B) == UNION {{<<u, i>> : i \in 1..B[u]} : u \in BagToSet(B)}

BagOfOccurrences(T) ==
    [u \in {o[1] : o \in T} |-> Cardinality({o \in T : o[1] = u})]

NoTruncation(B, n) == {B}

\* list(...)[:n]: which n elements come first is not determined, so any n of
\* them may be the ones kept.
Truncate(B, n) ==
    {BagOfOccurrences(T) : T \in KSubsets(Occurrences(B), Min(n, BagCardinality(B)))}

WrapLine(link) == "<" \o link \o ">"

WrapFromTwo(B) ==
    IF BagCardinality(B) >= WrapOver
    THEN BagOfAll(WrapLine, B)
    ELSE B

\* if len(links) > 2: links = [f"<{link}>" for link in links]
Wrap(B) ==
    IF BagCardinality(B) > WrapOver
    THEN BagOfAll(WrapLine, B)
    ELSE B

\* the values `links` can have when message.reply is reached
Links(content) ==
    {Wrap(T) : T \in Truncate(UrlSet(Urls(content)), MaxLinks)}

(***************************************************************************)
(* Inputs.                                                                 *)
(***************************************************************************)
\* the members that can use /afk
Users == {"ann", "bob"}

\* an account with user.bot set
Bot == "bot"

\* the account name of a user (display_name when no nickname is set)
Name == [u \in Users |-> IF u = "ann" THEN <<"a", "n", "n">> ELSE <<"b", "o", "b">>]

\* the reason option of /afk: any str, the empty one included
Reasons == {"", "brb"}

\* what awaiting a request of the platform client can do: return, raise
\* discord.HTTPException (Forbidden included), raise something else
Outcomes == {"ok", "http", "other"}

\* the on_message invocations in progress, each with its message
Tasks == 1..MaxTasks

\* message.mentions: a list of members
MentionLists == SeqsUpTo(Users, MaxMentions)

Messages(contents) ==
    [author : Users \cup {Bot}, mentions : MentionLists, content : contents]

NoMsg == [author |-> "", mentions |-> <<>>, content |-> <<>>]

Digit == <<"0", "1", "2", "3", "4", "5", "6", "7", "8", "9">>

RECURSIVE Decimal(_)
Decimal(n) ==
    IF n < 10 THEN <<Digit[n + 1]>>
    ELSE Decimal(n \div 10) \o <<Digit[(n % 10) + 1]>>

\* "##1 ##2 ... ##n"
RefsContent(n) == Concat([i \in 1..n |-> <<"#", "#">> \o Decimal(i) \o <<" ">>])

\* 20 distinct ##N references
ExTwenty == RefsContent(20)

ExFixes ==
    <<"F", "i", "x", "e", "s", " ", "f", "o", "o", "/", "b", "a", "r", "#", "#",
      "4", "2", " ", "a", "n", "d", " ", "#", "#", "4", "3">>

\* three references, one pull request
ExSame ==
    <<"#", "#", "1", " ", "p", "y", "c", "o", "r", "d", "#", "#", "1", " ",
      "P", "y", "c", "o", "r", "d", "-", "D", "e", "v", "e", "l", "o", "p",
      "m", "e", "n", "t", "/", "#", "#", "1">>

ExOrgOnly == <<"s", "e", "e", " ", "f", "o", "o", "/", "#", "#", "7">>

ExRepoOnly == <<"b", "a", "r", "#", "#", "7", " ", "#", "#", "7">>

Alphabet == {"a", "/", "#", "1"}

\* the contents of the link expander's specification
LinkContents ==
    SeqsUpTo(Alphabet, MaxContentLen)
        \cup {RefsContent(n) : n \in 0..ManyRefs}
        \cup {ExFixes, ExSame, ExOrgOnly, ExRepoOnly, ExTwenty}

\* the contents of the handlers' specification: without and with a reference
Contents == {<<"h", "i">>, <<"#", "#", "1">>}

(***************************************************************************)
(* State.                                                                  *)
(***************************************************************************)
VARIABLES
    cache,      \* self.bot.cache["afk"]: a dict, user id -> reason
    nick,       \* member.nick of each user, <<>> when none is set
    afk,        \* the /afk command of each user: the await it is suspended at
    msgs,       \* the message each on_message invocation was given
    task,       \* each on_message invocation: the await it is suspended at
    out,        \* the requests each invocation has issued for its message
    hist,       \* history: what each invocation saw
    waves       \* history: wave reactions since the user's entry was written

vars == <<cache, nick, afk, msgs, task, out, hist, waves>>

IdleAfk == [pc |-> "idle", arg |-> <<>>]

IdleTask == [pc |-> "idle", idx |-> 0, arg |-> <<>>, err |-> ""]

NoOut == [reactions |-> <<>>, replies |-> <<>>, links |-> EmptyBag]

NoHist == [cacheAt |-> <<>>, edit |-> ""]

Init ==
    /\ cache = <<>>
    /\ nick = [u \in Users |-> <<>>]
    /\ afk = [u \in Users |-> IdleAfk]
    /\ msgs = [m \in Tasks |-> NoMsg]
    /\ task = [m \in Tasks |-> IdleTask]
    /\ out = [m \in Tasks |-> NoOut]
    /\ hist = [m \in Tasks |-> NoHist]
    /\ waves = [u \in Users |-> 0]

(***************************************************************************)
(* The registry and the member.                                            *)
(***************************************************************************)
HasEntryIfTruthy(c, u) == u \in DOMAIN c /\ c[u] # ""

\* key in cache.keys()
HasEntry(c, u) == u \in DOMAIN c

\* cache[u] = reason
SetEntry(c, u, reason) ==
    [v \in DOMAIN c \cup {u} |-> IF v = u THEN reason ELSE c[v]]

\* del cache[u] raises KeyError when u is no key
DelRaises(c, u) == u \notin DOMAIN c

DelEntryKeeps(c, u) == c

\* del cache[u]
DelEntry(c, u) == [v \in DOMAIN c \ {u} |-> c[v]]

TruthyIsNotNone(c, u) == u \in DOMAIN c

\* if msg := cache.get(u): the entry exists and its reason is not empty
Truthy(c, u) == u \in DOMAIN c /\ c[u] # ""

\* member.display_name: nick or name
DisplayName(nk, u) == IF nk[u] # <<>> THEN nk[u] ELSE Name[u]

\* f"{mention.display_name} is AFK: {msg}"
ReplyText(nk, c, u) == Str(DisplayName(nk, u)) \o " is AFK: " \o c[u]

SuppressesNothing(kind) == FALSE

\* with suppress(discord.HTTPException)
Suppressed(kind) == kind = "http"

(***************************************************************************)
(* General.afk                                                             *)
(***************************************************************************)
\* /afk is invoked and await ctx.respond(f"Set your AFK: {reason}") returns
\* (if it raises the command ends with nothing done); then the entry is
\* written and, if asked for and the display name does not carry the prefix,
\* await ctx.author.edit(nick=f"[AFK] {ctx.author.display_name}").
AfkResponded(u, reason, change_nick) ==
    /\ afk[u].pc = "idle"
    /\ cache' = SetEntry(cache, u, reason)
    /\ waves' = [waves EXCEPT ![u] = 0]
    /\ afk' = [afk EXCEPT ![u] =
          IF change_nick /\ ~StartsWith(DisplayName(nick, u), AfkPrefix)
          THEN [pc |-> "edit", arg |-> AfkPrefix \o DisplayName(nick, u)]
          ELSE IdleAfk]
    /\ UNCHANGED <<nick, msgs, task, out, hist>>

\* ctx.author.edit returns or raises; HTTPException is suppressed, and the
\* command ends either way.
AfkEdited(u, o) ==
    /\ afk[u].pc = "edit"
    /\ nick' = IF o = "ok" THEN [nick EXCEPT ![u] = afk[u].arg] ELSE nick
    /\ afk' = [afk EXCEPT ![u] = IdleAfk]
    /\ UNCHANGED <<cache, msgs, task, out, hist, waves>>

(***************************************************************************)
(* General.on_message                                                      *)
(***************************************************************************)
\* the first mention from position i on whose entry is truthy, 0 if none
RECURSIVE NextAfkMention(_, _, _)
NextAfkMention(c, mentions, i) ==
    IF i > Len(mentions) THEN 0
    ELSE IF Truthy(c, mentions[i]) THEN i
    ELSE NextAfkMention(c, mentions, i + 1)

\* an exception leaves the handler from the await `at`
Raised(t, at) == [t EXCEPT !.pc = "raised", !.err = at]

\* The handler of message m runs from mention i of the loop
\*     for mention in message.mentions
\* to its next await: message.channel.send for the next mention with a truthy
\* entry, else message.reply with the links, else the end.  nk is member.nick
\* as the handler reads it, o0 and h0 what it has issued and seen so far.
Continue(m, message, i, nk, o0, h0) ==
    LET j == NextAfkMention(cache, message.mentions, i)
    IN  IF j > 0
        THEN /\ task' = [task EXCEPT ![m] = [IdleTask EXCEPT !.pc = "send", !.idx = j]]
             /\ out' = [out EXCEPT ![m] = [o0 EXCEPT !.replies =
                   Append(@, <<message.mentions[j],
                               ReplyText(nk, cache, message.mentions[j])>>)]]
             /\ hist' = [hist EXCEPT ![m] = h0]
        ELSE \E links \in Links(message.content) :
             /\ task' = [task EXCEPT ![m] =
                   [IdleTask EXCEPT !.pc = IF links # EmptyBag THEN "reply" ELSE "done"]]
             /\ out' = [out EXCEPT ![m] = [o0 EXCEPT !.links = links]]
             /\ hist' = [hist EXCEPT ![m] = h0]

\* on_message is called with a message: it returns for a bot's message;
\* it deletes the author's entry, if any (the key is there: nothing runs
\* between the test and the del), and awaits add_reaction; else it goes on
\* to the mentions.
Invoke(m, message) ==
    /\ task[m].pc = "idle"
    /\ msgs' = [msgs EXCEPT ![m] = message]
    /\ LET h0 == [NoHist EXCEPT !.cacheAt = cache]
       IN  IF message.author = Bot
           THEN /\ task' = [task EXCEPT ![m] = [IdleTask EXCEPT !.pc = "done"]]
                /\ hist' = [hist EXCEPT ![m] = h0]
                /\ UNCHANGED <<cache, out, waves>>
           ELSE IF HasEntry(cache, message.author) /\ DelRaises(cache, message.author)
           THEN /\ task' = [task EXCEPT ![m] = Raised(IdleTask, "del")]
                /\ hist' = [hist EXCEPT ![m] = h0]
                /\ UNCHANGED <<cache, out, waves>>
           ELSE IF HasEntry(cache, message.author)
           THEN /\ cache' = DelEntry(cache, message.author)
                /\ task' = [task EXCEPT ![m] = [IdleTask EXCEPT !.pc = "react"]]
                /\ out' = [out EXCEPT ![m] = [NoOut EXCEPT !.reactions = <<Wave>>]]
                /\ hist' = [hist EXCEPT ![m] = h0]
                /\ waves' = [waves EXCEPT ![message.author] = @ + 1]
           ELSE /\ Continue(m, message, 1, nick, NoOut, h0)
                /\ UNCHANGED <<cache, waves>>
    /\ UNCHANGED <<nick, afk>>

\* add_reaction returns: if the author's nick carries the prefix, await
\* message.author.edit(nick=message.author.nick[6:]), else on to the mentions.
\* add_reaction raises: nothing catches it.
ReactDone(m, o) ==
    /\ task[m].pc = "react"
    /\ LET a == msgs[m].author
       IN  IF o # "ok"
           THEN /\ task' = [task EXCEPT ![m] = Raised(@, "react")]
                /\ UNCHANGED <<out, hist>>
           ELSE IF nick[a] # <<>> /\ StartsWith(nick[a], AfkPrefix)
           THEN /\ task' = [task EXCEPT ![m] =
                      [@ EXCEPT !.pc = "edit", !.arg = DropPrefix(nick[a], PrefixLen)]]
                /\ UNCHANGED <<out, hist>>
           ELSE Continue(m, msgs[m], 1, nick, out[m], hist[m])
    /\ UNCHANGED <<cache, nick, afk, msgs, waves>>

\* message.author.edit returns or raises; HTTPException is suppressed.
EditDone(m, o) ==
    /\ task[m].pc = "edit"
    /\ nick' = IF o = "ok" THEN [nick EXCEPT ![msgs[m].author] = task[m].arg]
               ELSE nick
    /\ LET h0 == [hist[m] EXCEPT !.edit = o]
       IN  IF o = "ok" \/ Suppressed(o)
           THEN Continue(m, msgs[m], 1, nick', out[m], h0)
           ELSE /\ task' = [task EXCEPT ![m] = Raised(@, "edit")]
                /\ hist' = [hist EXCEPT ![m] = h0]
                /\ UNCHANGED out
    /\ UNCHANGED <<cache, afk, msgs, waves>>

\* message.channel.send returns: on to the next mention; raises: nothing
\* catches it.
SendDone(m, o) ==
    /\ task[m].pc = "send"
    /\ IF o = "ok"
       THEN Continue(m, msgs[m], task[m].idx + 1, nick, out[m], hist[m])
       ELSE /\ task' = [task EXCEPT ![m] = Raised(@, "send")]
            /\ UNCHANGED <<out, hist>>
    /\ UNCHANGED <<cache, nick, afk, msgs, waves>>

\* message.reply returns or raises: the handler ends.
ReplyDone(m, o) ==
    /\ task[m].pc = "reply"
    /\ task' = [task EXCEPT ![m] =
          IF o = "ok" THEN [@ EXCEPT !.pc = "done"] ELSE Raised(@, "reply")]
    /\ UNCHANGED <<cache, nick, afk, msgs, out, hist, waves>>

\* The invocation has ended, by return or by exception: its coroutine is
\* gone, and its place is free for the next message.
Finish(m) ==
    /\ task[m].pc \in {"done", "raised"}
    /\ msgs' = [msgs EXCEPT ![m] = NoMsg]
    /\ task' = [task EXCEPT ![m] = IdleTask]
    /\ out' = [out EXCEPT ![m] = NoOut]
    /\ hist' = [hist EXCEPT ![m] = NoHist]
    /\ UNCHANGED <<cache, nick, afk, waves>>

\* One on_message invocation at a time, beside the /afk commands.
Next ==
    \/ \E u \in Users, reason \in Reasons, change_nick \in BOOLEAN :
          AfkResponded(u, reason, change_nick)
    \/ \E u \in Users, o \in Outcomes : AfkEdited(u, o)
    \/ \E message \in Messages(Contents) : Invoke(1, message)
    \/ \E o \in Outcomes : ReactDone(1, o)
    \/ \E o \in Outcomes : EditDone(1, o)
    \/ \E o \in Outcomes : SendDone(1, o)
    \/ \E o \in Outcomes : ReplyDone(1, o)
    \/ Finish(1)

Spec == Init /\ [][Next]_vars

\* Concurrent on_message invocations, beside the /afk commands, for messages
\* without mentions and references; every request to the platform succeeds.
RaceMessages ==
    {message \in Messages(Contents) :
        message.mentions = <<>> /\ FindAll(message.content) = <<>>}

RaceNext ==
    \/ \E u \in Users, reason \in Reasons \ {""}, change_nick \in BOOLEAN :
          AfkResponded(u, reason, change_nick)
    \/ \E u \in Users : AfkEdited(u, "ok")
    \/ \E m \in Tasks, message \in RaceMessages : Invoke(m, message)
    \/ \E m \in Tasks : ReactDone(m, "ok")
    \/ \E m \in Tasks : EditDone(m, "ok")
    \/ \E m \in Tasks : Finish(m)

RaceSpec == Init /\ [][RaceNext]_vars

\* The link expander alone: one message, no registry entry, every content.
LinkMessages ==
    {message \in Messages(LinkContents) :
        message.author = "ann" /\ message.mentions = <<>>}

LinkNext ==
    \/ \E message \in LinkMessages : Invoke(1, message)
    \/ \E o \in Outcomes : ReplyDone(1, o)

LinkSpec == Init /\ [][LinkNext]_vars

(***************************************************************************)
(* Properties.                                                             *)
(***************************************************************************)
Ended(m) == task[m].pc \in {"done", "raised"}

\* the handler of m has reached the loop over the mentions
NotifyRan(m) ==
    \/ task[m].pc \in {"send", "reply"}
    \/ task[m].pc = "done" /\ msgs[m].author # Bot
    \/ task[m].pc = "raised" /\ task[m].err \in {"send", "reply"}

\* the handler of m has computed the links
LinkRan(m) ==
    \/ task[m].pc = "reply"
    \/ task[m].pc = "done" /\ msgs[m].author # Bot
    \/ task[m].pc = "raised" /\ task[m].err = "reply"

ReplyTargets(m) == [i \in 1..Len(out[m].replies) |-> out[m].replies[i][1]]

\* the URL the claims expect for a reference
ExpectedUrl(ref) ==
    "https://github.com/"
        \o (IF ref.org = "" THEN "Pycord-Development" ELSE ref.org) \o "/"
        \o (IF ref.repo = "" THEN "pycord" ELSE ref.repo)
        \o "/pull/" \o ref.index

ExpectedUrls(content) == {ExpectedUrl(ref) : ref \in Range(FindAll(content))}

Bracketed(U) == {"<" \o u \o ">" : u \in U}

\* a step of the handler or of a command, as C1 sees it
C1_Step ==
    LET a == msgs'[1].author
    IN  /\ (task[1].pc = "idle" /\ task'[1].pc # "idle" /\ a \in Users) =>
              IF a \in DOMAIN cache
              THEN /\ a \notin DOMAIN cache'
                   /\ DOMAIN cache' = DOMAIN cache \ {a}
                   /\ \A v \in DOMAIN cache' : cache'[v] = cache[v]
                   /\ out'[1].reactions = <<Wave>>
              ELSE /\ cache' = cache
                   /\ out'[1].reactions = <<>>
        /\ (task[1].pc # "idle" /\ task'[1].pc # "idle") =>
              /\ out'[1].reactions = out[1].reactions
              /\ DOMAIN cache \subseteq DOMAIN cache'
        /\ \A u \in Users :
              (u \notin DOMAIN cache /\ u \in DOMAIN cache') =>
                  task' = task /\ afk[u].pc = "idle"

\* C1: when on_message is given a message of a user with an entry, the entry
\* is removed (no other entry is touched) and one wave reaction is requested
\* for that message; given a message of a user without an entry it requests
\* no reaction and leaves the registry as it is; no later step of the handler
\* adds a reaction or removes an entry, and an entry comes back only by the
\* user's /afk.
C1_ClearAndWaveOnce == [][C1_Step]_vars

\* a message of ann, after a wave since ann's last /afk, has been handled
\* without a reaction
C1_Witness ==
    /\ task[1].pc = "done"
    /\ msgs[1].author = "ann"
    /\ waves["ann"] = 1
    /\ "ann" \notin DOMAIN cache
    /\ out[1].reactions = <<>>

\* entry truthiness as the claims state it
Listed(c, u) == u \in DOMAIN c /\ c[u] # ""

\* C2 as stated: when the handler returns, the replies it has sent are, in
\* the order of the mentions, those for the mentioned users that had an entry
\* when the handler was invoked.
C2_RepliesForEntriesAtCall ==
    (task[1].pc = "done" /\ msgs[1].author \in Users) =>
        ReplyTargets(1) =
            SelectSeq(msgs[1].mentions, LAMBDA u : u \in DOMAIN hist[1].cacheAt)

\* a step of the handler or of a command, as C2 (amended) sees it
C2_Step ==
    LET t == task[1]
        tt == task'[1]
        M == msgs'[1].mentions
        a == msgs'[1].author
        from == IF t.pc = "send" THEN t.idx + 1 ELSE 1
        before == IF t.pc = "idle" THEN <<>> ELSE out[1].replies
        loop ==
            \/ t.pc = "idle" /\ tt.pc # "idle" /\ a \in Users /\ a \notin DOMAIN cache
            \/ /\ t.pc \in {"react", "edit", "send"}
               /\ tt.pc \in {"send", "reply", "done"}
               /\ tt # t
    IN  IF loop
        THEN IF tt.pc = "send"
             THEN /\ tt.idx \in from..Len(M)
                  /\ Listed(cache, M[tt.idx])
                  /\ \A i \in from..(tt.idx - 1) : ~Listed(cache, M[i])
                  /\ out'[1].replies = Append(before,
                        <<M[tt.idx],
                          Str(IF nick'[M[tt.idx]] # <<>> THEN nick'[M[tt.idx]]
                              ELSE Name[M[tt.idx]])
                              \o " is AFK: " \o cache[M[tt.idx]]>>)
             ELSE /\ \A i \in from..Len(M) : ~Listed(cache, M[i])
                  /\ out'[1].replies = before
        ELSE tt.pc = "idle" \/ out'[1].replies = out[1].replies

\* C2 as amended: the loop over the mentions, which runs after the author's
\* entry has been removed, sends "{display_name} is AFK: {reason}" for
\* exactly the mentioned users whose entry, when the loop reaches them,
\* exists with a non-empty reason; it sends nothing else, and it stops at a
\* send that raises.
C2_RepliesForTruthyAtLoop == [][C2_Step]_vars

\* ann, with an entry, has posted a message that mentions ann and bob: one
\* reply, for bob
C2_Witness ==
    /\ task[1].pc = "done"
    /\ msgs[1].author = "ann"
    /\ msgs[1].mentions = <<"ann", "bob">>
    /\ hist[1].cacheAt = [u \in Users |-> "brb"]
    /\ out[1].replies = <<<<"bob", "bob is AFK: brb">>>>

\* C3 as stated: a failure of add_reaction is caught; it never ends the
\* handler with an exception.
C3_ReactionFailureDiscarded ==
    \A m \in Tasks : ~(task[m].pc = "raised" /\ task[m].err = "react")

\* C4: once the rename of the clear phase has failed with HTTPException, the
\* handler has not raised from it: the wave reaction was requested before,
\* the loop over the mentions has been reached, and so have the links unless
\* a reply of the loop is awaited or has raised.
C4_RenameFailureSwallowed ==
    hist[1].edit = "http" =>
        /\ ~(task[1].pc = "raised" /\ task[1].err = "edit")
        /\ task[1].pc # "edit"
        /\ out[1].reactions = <<Wave>>
        /\ NotifyRan(1)
        /\ LinkRan(1) \/ task[1].pc = "send" \/ task[1].err = "send"

\* the rename failed, and the handler has returned after a reply for bob and
\* the link reply, ann's entry being gone
C4_Witness ==
    /\ hist[1].edit = "http"
    /\ task[1].pc = "done"
    /\ msgs[1].author = "ann"
    /\ "ann" \notin DOMAIN cache
    /\ StartsWith(nick["ann"], AfkPrefix)
    /\ ReplyTargets(1) = <<"bob">>
    /\ out[1].links # EmptyBag

\* C5: of the on_message invocations for messages of a user, in progress at
\* once or not, one only requests the wave reaction for each entry the user's
\* /afk has written, and none while the entry is there; no invocation ends
\* with the KeyError of a del.
C5_OneWavePerEntry ==
    /\ \A u \in Users : waves[u] <= 1 /\ (u \in DOMAIN cache => waves[u] = 0)
    /\ \A m \in Tasks :
          /\ Len(out[m].reactions) <= 1
          /\ task[m].err # "del"

\* two invocations for messages of ann are in progress: the first awaits its
\* reaction, the second has found no entry
C5_Witness ==
    /\ task[1].pc = "react"
    /\ msgs[1].author = "ann"
    /\ out[1].reactions = <<Wave>>
    /\ task[2].pc = "done"
    /\ msgs[2].author = "ann"
    /\ out[2].reactions = <<>>
    /\ waves["ann"] = 1

\* C6 as stated: a handler that has ended, for a message with a reference
\* that mentions a user (not the author) whose entry was truthy when the
\* handler was invoked and still is, has attempted a reply for a mention and
\* the link reply.
C6_BothAttempted ==
    \A m \in Tasks :
        (/\ Ended(m)
         /\ msgs[m].author \in Users
         /\ FindAll(msgs[m].content) # <<>>
         /\ \E i \in 1..Len(msgs[m].mentions) :
               LET u == msgs[m].mentions[i]
               IN  /\ u # msgs[m].author
                   /\ Listed(hist[m].cacheAt, u)
                   /\ Listed(cache, u))
        => (out[m].replies # <<>> /\ out[m].links # EmptyBag)

\* C7: the link reply holds each URL once, and min(15, number of distinct
\* URLs of the content's references) of them; 20 distinct ##N references give
\* 15 links, and no reference gives no reply.
C7_DistinctAndCapped ==
    task[1].pc # "idle" =>
        LET U == ExpectedUrls(msgs[1].content)
            links == out[1].links
        IN  /\ \A line \in BagToSet(links) : CopiesIn(line, links) = 1
            /\ BagToSet(links) \subseteq U \cup Bracketed(U)
            /\ \A u \in U : ~({u, "<" \o u \o ">"} \subseteq BagToSet(links))
            /\ BagCardinality(links) = Min(15, Cardinality(U))
            /\ msgs[1].content = ExTwenty => BagCardinality(links) <= 15
            /\ FindAll(msgs[1].content) = <<>> =>
                  links = EmptyBag /\ task[1].pc = "done"
            /\ task[1].pc = "reply" => links # EmptyBag

\* 20 distinct ##N references: the reply awaited holds 15 links
C7_Witness ==
    /\ task[1].pc = "reply"
    /\ msgs[1].content = ExTwenty
    /\ Cardinality(ExpectedUrls(msgs[1].content)) = 20
    /\ BagCardinality(out[1].links) = 15

\* C8: every link of the reply is in angle brackets if the reply holds more
\* than 2 links, and none is otherwise; references to 3 distinct URLs give a
\* reply of bracketed links, references to 2 a reply of bare links.
C8_WrappedIffOverTwo ==
    task[1].pc # "idle" =>
        LET U == ExpectedUrls(msgs[1].content)
            lines == BagToSet(out[1].links)
        IN  /\ BagCardinality(out[1].links) > 2 => lines \subseteq Bracketed(U)
            /\ BagCardinality(out[1].links) <= 2 => lines \subseteq U
            /\ Cardinality(U) = 3 => lines = Bracketed(U)
            /\ Cardinality(U) = 2 => lines = U

\* "##1 ##2 ##3": three bracketed links
C8_Witness ==
    /\ task[1].pc = "reply"
    /\ msgs[1].content = RefsContent(3)
    /\ out[1].links = SetToBag(
          {"<https://github.com/Pycord-Development/pycord/pull/1>",
           "<https://github.com/Pycord-Development/pycord/pull/2>",
           "<https://github.com/Pycord-Development/pycord/pull/3>"})

\* C9: the URL of a reference is https://github.com/{org}/{repo}/pull/{index}
\* with the default organization for an absent org and the default
\* repository for an absent repo, each on its own; the links of a reply of at
\* most 15 links are the URLs of the content's references.
C9_LinkOfReference ==
    task[1].pc # "idle" =>
        LET U == ExpectedUrls(msgs[1].content)
            lines == BagToSet(out[1].links)
        IN  /\ lines \subseteq U \cup Bracketed(U)
            /\ Cardinality(U) <= 2 => lines = U
            /\ Cardinality(U) \in 3..15 => lines = Bracketed(U)
            /\ msgs[1].content = ExFixes =>
                  lines = {"https://github.com/foo/bar/pull/42",
                           "https://github.com/Pycord-Development/pycord/pull/43"}
            /\ msgs[1].content = ExOrgOnly =>
                  lines = {"https://github.com/foo/pycord/pull/7"}
            /\ msgs[1].content = ExRepoOnly =>
                  lines = {"https://github.com/Pycord-Development/bar/pull/7",
                           "https://github.com/Pycord-Development/pycord/pull/7"}

\* "Fixes foo/bar##42 and ##43": the reply awaited holds the two URLs
C9_Witness ==
    /\ task[1].pc = "reply"
    /\ msgs[1].content = ExFixes
    /\ out[1].links = SetToBag(
          {"https://github.com/foo/bar/pull/42",
           "https://github.com/Pycord-Development/pycord/pull/43"})

\* no command and no handler is in progress
Quiescent ==
    /\ \A u \in Users : afk[u].pc = "idle"
    /\ \A m \in Tasks : task[m].pc \in {"idle", "done", "raised"}

\* C10 as stated: in a quiescent state a user whose nickname carries the
\* prefix has an entry.
C10_PrefixImpliesEntry ==
    Quiescent =>
        \A u \in Users : StartsWith(nick[u], AfkPrefix) => u \in DOMAIN cache

====
